---- MODULE Spec2Model ----
(***************************************************************************)
(* A model of the font-subset build pipeline: check_updates.py (release    *)
(* polling against the version ledger), process_fonts.py (main, the        *)
(* ThreadPoolExecutor fleet, FontProcessor.process_update and              *)
(* FontProcessor.process_font_variant) and the helpers of utils.py.        *)
(*                                                                         *)
(* Text is modelled as a sequence of one-character strings, so that        *)
(* str.replace, str.split, str.strip, str.lower, str.endswith, int(x, 16)  *)
(* and re.search are computed and not assumed.                             *)
(***************************************************************************)
EXTENDS Integers, Sequences, FiniteSets, TLC

(***************************************************************************)
(* Text helpers (Python str methods used by the scripts)                   *)
(***************************************************************************)

\* The value None of Python, and the empty text.
None == <<"<None>">>

IsSpace(c) == c \in {" ", "\t", "\n"}

RECURSIVE lstrip(_)
lstrip(s) ==
  IF s # <<>> /\ IsSpace(Head(s)) THEN lstrip(Tail(s)) ELSE s

RECURSIVE rstrip(_)
rstrip(s) ==
  IF s # <<>> /\ IsSpace(s[Len(s)]) THEN rstrip(SubSeq(s, 1, Len(s) - 1)) ELSE s

\* str.strip()
strip(s) == rstrip(lstrip(s))

\* str.split(c) for a one-character separator c: always at least one piece.
RECURSIVE split(_, _)
split(s, c) ==
  IF \A i \in 1..Len(s) : s[i] # c
  THEN <<s>>
  ELSE LET i == CHOOSE k \in 1..Len(s) :
                  s[k] = c /\ \A j \in 1..(k - 1) : s[j] # c
       IN  <<SubSeq(s, 1, i - 1)>> \o split(SubSeq(s, i + 1, Len(s)), c)

\* str.replace('U+', ''): every non-overlapping occurrence, left to right.
RECURSIVE replace_UPlus(_)
replace_UPlus(s) ==
  IF s = <<>> THEN <<>>
  ELSE IF Len(s) >= 2 /\ s[1] = "U" /\ s[2] = "+"
       THEN replace_UPlus(SubSeq(s, 3, Len(s)))
       ELSE <<Head(s)>> \o replace_UPlus(Tail(s))

ToLower ==
  "A" :> "a" @@ "B" :> "b" @@ "C" :> "c" @@ "D" :> "d" @@ "E" :> "e" @@
  "F" :> "f" @@ "G" :> "g" @@ "H" :> "h" @@ "I" :> "i" @@ "J" :> "j" @@
  "K" :> "k" @@ "L" :> "l" @@ "M" :> "m" @@ "N" :> "n" @@ "O" :> "o" @@
  "P" :> "p" @@ "Q" :> "q" @@ "R" :> "r" @@ "S" :> "s" @@ "T" :> "t" @@
  "U" :> "u" @@ "V" :> "v" @@ "W" :> "w" @@ "X" :> "x" @@ "Y" :> "y" @@
  "Z" :> "z"

lower_char(c) == IF c \in DOMAIN ToLower THEN ToLower[c] ELSE c

\* str.lower()
lower(s) == [i \in 1..Len(s) |-> lower_char(s[i])]

\* str.endswith(suffix)
endswith(s, suffix) ==
  /\ Len(s) >= Len(suffix)
  /\ SubSeq(s, Len(s) - Len(suffix) + 1, Len(s)) = suffix

(***************************************************************************)
(* int(text, 16)                                                           *)
(***************************************************************************)

HexValue ==
  "0" :> 0 @@ "1" :> 1 @@ "2" :> 2 @@ "3" :> 3 @@ "4" :> 4 @@ "5" :> 5 @@
  "6" :> 6 @@ "7" :> 7 @@ "8" :> 8 @@ "9" :> 9 @@
  "a" :> 10 @@ "b" :> 11 @@ "c" :> 12 @@ "d" :> 13 @@ "e" :> 14 @@ "f" :> 15 @@
  "A" :> 10 @@ "B" :> 11 @@ "C" :> 12 @@ "D" :> 13 @@ "E" :> 14 @@ "F" :> 15

\* The digits of a literal: hexadecimal digits, single underscores between them
\* (one may follow a 0x prefix).
DigitsOK(d, afterPrefix) ==
  /\ d # <<>>
  /\ d[Len(d)] # "_"
  /\ (afterPrefix \/ d[1] # "_")
  /\ \A i \in 1..Len(d) : d[i] = "_" \/ d[i] \in DOMAIN HexValue
  /\ \A i \in 1..(Len(d) - 1) : ~(d[i] = "_" /\ d[i + 1] = "_")

RECURSIVE DigitsValue(_, _)
DigitsValue(d, acc) ==
  IF d = <<>> THEN acc
  ELSE IF Head(d) = "_" THEN DigitsValue(Tail(d), acc)
       ELSE DigitsValue(Tail(d), 16 * acc + HexValue[Head(d)])

\* The literal after its sign: an optional 0x prefix, then the digits.
unsigned16(u, negative) ==
  IF Len(u) >= 2 /\ u[1] = "0" /\ u[2] \in {"x", "X"}
  THEN IF DigitsOK(SubSeq(u, 3, Len(u)), TRUE)
       THEN [ok |-> TRUE,
             val |-> IF negative THEN 0 - DigitsValue(SubSeq(u, 3, Len(u)), 0)
                     ELSE DigitsValue(SubSeq(u, 3, Len(u)), 0)]
       ELSE [ok |-> FALSE, val |-> 0]
  ELSE IF DigitsOK(u, FALSE)
       THEN [ok |-> TRUE,
             val |-> IF negative THEN 0 - DigitsValue(u, 0) ELSE DigitsValue(u, 0)]
       ELSE [ok |-> FALSE, val |-> 0]

\* The literal without its surrounding whitespace: an optional sign first.
signed16(t) ==
  IF t # <<>> /\ t[1] \in {"+", "-"}
  THEN unsigned16(Tail(t), t[1] = "-")
  ELSE unsigned16(t, FALSE)

\* int(s, 16).  [ok |-> FALSE] stands for ValueError.
int16(s) == signed16(strip(s))

(***************************************************************************)
(* utils.parse_unicode_range                                               *)
(***************************************************************************)

\* ranges.append((start, end)), unless int() raised for one of the two.
pair_of(start, end) ==
  IF start.ok /\ end.ok
  THEN [ok |-> TRUE, pair |-> <<start.val, end.val>>]
  ELSE [ok |-> FALSE, pair |-> <<0, 0>>]

\* start_hex, end_hex = part.split('-'): ValueError unless there are two pieces.
range_of(pieces) ==
  IF Len(pieces) # 2
  THEN [ok |-> FALSE, pair |-> <<0, 0>>]
  ELSE pair_of(int16(pieces[1]), int16(pieces[2]))

\* One comma-separated part: "a-b" or "a".
parse_part(part) ==
  IF \E i \in 1..Len(part) : part[i] = "-"
  THEN range_of(split(part, "-"))
  ELSE pair_of(int16(part), int16(part))

\* The list returned, unless a part raised.
ranges_of(parts) ==
  IF \A i \in 1..Len(parts) : parts[i].ok
  THEN [ok |-> TRUE, ranges |-> [i \in 1..Len(parts) |-> parts[i].pair]]
  ELSE [ok |-> FALSE, ranges |-> <<>>]

\* The list with the first comma-separated part only.
parse_parts_first_only(raw) == ranges_of(<<parse_part(strip(raw[1]))>>)

parse_parts(raw) == ranges_of([i \in 1..Len(raw) |-> parse_part(strip(raw[i]))])

\* parse_unicode_range(range_str): [ok |-> TRUE, ranges |-> <<(start, end), ...>>]
\* or [ok |-> FALSE] when the function raises.
parse_unicode_range(range_str) ==
  parse_parts(split(strip(replace_UPlus(range_str)), ","))

(***************************************************************************)
(* re.compile / regex.search, for patterns made of literal characters,     *)
(* "." (any character) and ".*" (any text); an unbalanced parenthesis      *)
(* makes re.compile raise re.error.                                        *)
(***************************************************************************)

CountOf(p, tok) == Cardinality({i \in 1..Len(p) : p[i] = tok})

re_compile_ok(pattern) == CountOf(pattern, "(") = CountOf(pattern, ")")

TokMatches(tok, c, ignorecase) ==
  \/ tok = "."
  \/ tok = c
  \/ ignorecase /\ lower_char(tok) = lower_char(c)

RECURSIVE MatchFrom(_, _, _, _, _)
MatchFrom(p, i, s, j, ignorecase) ==
  IF i > Len(p) THEN TRUE
  ELSE IF p[i] = ".*"
       THEN \E k \in j..(Len(s) + 1) : MatchFrom(p, i + 1, s, k, ignorecase)
       ELSE /\ j <= Len(s)
            /\ TokMatches(p[i], s[j], ignorecase)
            /\ MatchFrom(p, i + 1, s, j + 1, ignorecase)

regex_search(pattern, s, ignorecase) ==
  \E j \in 1..(Len(s) + 1) : MatchFrom(pattern, 1, s, j, ignorecase)

(***************************************************************************)
(* utils.find_asset_by_pattern                                             *)
(***************************************************************************)

\* The last asset whose name the pattern is found in (a loop without its
\* early return).
find_asset_by_pattern_last(assets, pattern) ==
  IF \E k \in 1..Len(assets) : regex_search(pattern, assets[k].name, FALSE)
  THEN CHOOSE k \in 1..Len(assets) :
         /\ regex_search(pattern, assets[k].name, FALSE)
         /\ \A j \in (k + 1)..Len(assets) :
              ~regex_search(pattern, assets[j].name, FALSE)
  ELSE 0

\* The index in assets of the asset returned (the first whose name the pattern
\* is found in), 0 for None.  The caller checks re_compile_ok first: re.compile
\* raises before the loop.
find_asset_by_pattern(assets, pattern) ==
  IF \E k \in 1..Len(assets) : regex_search(pattern, assets[k].name, FALSE)
  THEN CHOOSE k \in 1..Len(assets) :
         /\ regex_search(pattern, assets[k].name, FALSE)
         /\ \A j \in 1..(k - 1) : ~regex_search(pattern, assets[j].name, FALSE)
  ELSE 0

(***************************************************************************)
(* File contents.  A font binary has a best cmap or none, the code points  *)
(* of that cmap, and the code points whose glyph data is corrupt (the      *)
(* subsetting library raises on them).  A truncated download is "partial". *)
(***************************************************************************)

FontData(cmap, glyphs, bad) ==
  [kind |-> "font", cmap |-> cmap, glyphs |-> glyphs, bad |-> bad,
   entries |-> <<>>]

ZipData(entries) ==
  [kind |-> "zip", cmap |-> FALSE, glyphs |-> {}, bad |-> {},
   entries |-> entries]

PartialData ==
  [kind |-> "partial", cmap |-> FALSE, glyphs |-> {}, bad |-> {},
   entries |-> <<>>]

Woff2Data(unicodes) ==
  [kind |-> "woff2", cmap |-> TRUE, glyphs |-> unicodes, bad |-> {},
   entries |-> <<>>]

\* TTFont(font_path) raises on anything that is not a font binary.
TTFont_ok(data) == data.kind = "font"

\* FontProcessor.get_font_glyphs, for a file TTFont can open.
get_font_glyphs(data) == IF data.cmap THEN data.glyphs ELSE {}

\* The code points asked for with range(start, end): the end of a pair left out.
wanted_unicodes_exclusive(data, unicode_ranges) ==
  {code \in get_font_glyphs(data) :
     \E i \in 1..Len(unicode_ranges) :
        unicode_ranges[i][1] <= code /\ code < unicode_ranges[i][2]}

\* The code points create_subset asks for: range(start, end + 1) of every pair,
\* kept when the font has a glyph for it.
wanted_unicodes(data, unicode_ranges) ==
  {code \in get_font_glyphs(data) :
     \E i \in 1..Len(unicode_ranges) :
        unicode_ranges[i][1] <= code /\ code <= unicode_ranges[i][2]}

\* The subsetter on the code points asked for: nothing to do, a structural
\* error of the library, or the subset saved at output_path.
subset_of(data, unicodes) ==
  IF unicodes = {} THEN [result |-> "skip", file |-> PartialData]
  ELSE IF unicodes \cap data.bad # {}
       THEN [result |-> "raise", file |-> PartialData]
       ELSE [result |-> "built", file |-> Woff2Data(unicodes)]

\* FontProcessor.create_subset: "raise", "skip" (returns False) or "built"
\* (returns True).
create_subset(data, unicode_ranges) ==
  IF ~TTFont_ok(data) THEN [result |-> "raise", file |-> PartialData]
  ELSE subset_of(data, wanted_unicodes(data, unicode_ranges))

\* output_path.stat().st_size of a saved subset: it grows with the glyphs kept.
st_size(file) == Cardinality(file.glyphs)

(***************************************************************************)
(* utils.hash_id and the output names                                      *)
(***************************************************************************)

DASH == <<"-">>

Salt == <<"f", "o", "n", "t", "-", "s", "u", "b", "s", "e", "t">>

HashLength == 32

\* sha256(f"{id_value}{salt}").hexdigest()[:length]: the digest is kept as the
\* text it is the digest of.
hash_id(id_value) == [digest_of |-> id_value \o Salt, length |-> HashLength]

NoHash == [digest_of |-> <<>>, length |-> 0]

EXT_WOFF2   == <<".", "w", "o", "f", "f", "2">>
EXT_CSS     == <<".", "c", "s", "s">>
EXT_MIN_CSS == <<".", "m", "i", "n", ".", "c", "s", "s">>

\* f"{font_name}-{variant}-{hash_str}.woff2"
output_filename(font_name, variant, range_id) ==
  [stem |-> font_name \o DASH \o variant \o DASH,
   hash |-> hash_id(font_name \o DASH \o variant \o DASH \o range_id),
   ext  |-> EXT_WOFF2]

\* f"{font_name}-{variant}.css" and f"{font_name}-{variant}.min.css"
css_filename(font_name, variant, ext) ==
  [stem |-> font_name \o DASH \o variant, hash |-> NoHash, ext |-> ext]

\* Every file written straight into self.output_dir.
output_path_flat(font_name, filename) == [dir |-> <<>>, name |-> filename]

\* Every file written straight into self.output_dir under a name without its
\* stem: the CSS files of all fonts and variants share two names.
output_path_shared(font_name, filename) ==
  [dir |-> <<>>, name |-> [filename EXCEPT !.stem = <<>>]]

\* self.output_dir / font_name / filename
output_path(font_name, filename) == [dir |-> font_name, name |-> filename]

(***************************************************************************)
(* utils.generate_css                                                      *)
(***************************************************************************)

\* The minified rule without its font-weight declaration (a reader of the
\* stylesheet then takes the default weight, 400).
css_rule_min_without_weight(font_name, weight, subset, pretty) ==
  [comment       |-> IF pretty THEN subset.id ELSE <<>>,
   font_family   |-> font_name,
   font_style    |-> "normal",
   font_weight   |-> IF pretty THEN weight ELSE 400,
   font_display  |-> "swap",
   src           |-> subset.filename,
   format        |-> "woff2",
   unicode_range |-> subset.unicode_range,
   whitespace    |-> pretty]

\* The rule with the range written without its U+ markers.
css_rule_without_prefix(font_name, weight, subset, pretty) ==
  [comment       |-> IF pretty THEN subset.id ELSE <<>>,
   font_family   |-> font_name,
   font_style    |-> "normal",
   font_weight   |-> weight,
   font_display  |-> "swap",
   src           |-> subset.filename,
   format        |-> "woff2",
   unicode_range |-> replace_UPlus(subset.unicode_range),
   whitespace    |-> pretty]

\* One @font-face rule: the pretty text of lines 185-193 or the minified text
\* of line 196, as the values they are made of.
css_rule(font_name, weight, subset, pretty) ==
  [comment       |-> IF pretty THEN subset.id ELSE <<>>,
   font_family   |-> font_name,
   font_style    |-> "normal",
   font_weight   |-> weight,
   font_display  |-> "swap",
   src           |-> subset.filename,
   format        |-> "woff2",
   unicode_range |-> subset.unicode_range,
   whitespace    |-> pretty]

\* The stylesheets with the rules in the opposite order of the list given (the
\* list sorted by a key that happens to decrease along it).
generate_css_reversed(font_name, variant, weight, subsets) ==
  <<[i \in 1..Len(subsets) |->
       css_rule(font_name, weight, subsets[Len(subsets) + 1 - i], TRUE)],
    [i \in 1..Len(subsets) |->
       css_rule(font_name, weight, subsets[Len(subsets) + 1 - i], FALSE)]>>

\* (css_content, css_min_content): one rule per subset, in the order given.
generate_css(font_name, variant, weight, subsets) ==
  <<[i \in 1..Len(subsets) |-> css_rule(font_name, weight, subsets[i], TRUE)],
    [i \in 1..Len(subsets) |-> css_rule(font_name, weight, subsets[i], FALSE)]>>

CssData(rules) ==
  [kind |-> "css", cmap |-> FALSE, glyphs |-> {}, bad |-> {}, entries |-> rules]

(***************************************************************************)
(* FontProcessor.process_font_variant                                      *)
(***************************************************************************)

\* The state of one call: stats, the files written so far (in order), whether
\* the call has raised, the next catalog entry, whether the CSS was written.
variant_start(ranges) ==
  [stats   |-> [total_ranges    |-> Len(ranges),
                created_subsets |-> 0,
                skipped_ranges  |-> 0,
                total_size      |-> 0,
                subsets         |-> <<>>],
   writes  |-> <<>>,
   raised  |-> FALSE,
   k       |-> 1,
   css     |-> FALSE]

\* The bookkeeping with create_subset called outside the try: its exception
\* leaves process_font_variant.
record_result_unguarded(st, font_name, entry, filename, made) ==
  CASE made.result = "built" ->
         [st EXCEPT
            !.stats.created_subsets = @ + 1,
            !.stats.total_size = @ + st_size(made.file),
            !.stats.subsets = Append(@, [id            |-> entry.id,
                                         unicode_range |-> entry.expr,
                                         filename      |-> filename,
                                         size          |-> st_size(made.file)]),
            !.writes = Append(@, [path |-> output_path(font_name, filename),
                                  data |-> made.file]),
            !.k = @ + 1]
    [] made.result = "raise" -> [st EXCEPT !.raised = TRUE]
    [] OTHER -> [st EXCEPT !.stats.skipped_ranges = @ + 1, !.k = @ + 1]

\* The bookkeeping with the subset named after a digest of the range
\* expression instead of the range identifier.
record_result_named_by_expr(st, font_name, entry, filename, made) ==
  IF made.result = "built"
  THEN [st EXCEPT
          !.stats.created_subsets = @ + 1,
          !.stats.total_size = @ + st_size(made.file),
          !.stats.subsets =
             Append(@, [id            |-> entry.id,
                        unicode_range |-> entry.expr,
                        filename      |-> [filename EXCEPT
                                             !.hash = hash_id(entry.expr)],
                        size          |-> st_size(made.file)]),
          !.writes = Append(@, [path |-> output_path(
                                           font_name,
                                           [filename EXCEPT
                                              !.hash = hash_id(entry.expr)]),
                                data |-> made.file]),
          !.k = @ + 1]
  ELSE [st EXCEPT !.stats.skipped_ranges = @ + 1, !.k = @ + 1]

\* The bookkeeping with an except clause that only prints: a range whose build
\* raised is counted nowhere.
record_result_error_uncounted(st, font_name, entry, filename, made) ==
  CASE made.result = "built" ->
         [st EXCEPT
            !.stats.created_subsets = @ + 1,
            !.stats.total_size = @ + st_size(made.file),
            !.stats.subsets = Append(@, [id            |-> entry.id,
                                         unicode_range |-> entry.expr,
                                         filename      |-> filename,
                                         size          |-> st_size(made.file)]),
            !.writes = Append(@, [path |-> output_path(font_name, filename),
                                  data |-> made.file]),
            !.k = @ + 1]
    [] made.result = "raise" -> [st EXCEPT !.k = @ + 1]
    [] OTHER -> [st EXCEPT !.stats.skipped_ranges = @ + 1, !.k = @ + 1]

\* Lines 187-203: a subset built is counted and listed; a range with no glyph,
\* or one whose build raised, is counted as skipped.
record_result(st, font_name, entry, filename, made) ==
  IF made.result = "built"
  THEN [st EXCEPT
          !.stats.created_subsets = @ + 1,
          !.stats.total_size = @ + st_size(made.file),
          !.stats.subsets = Append(@, [id            |-> entry.id,
                                       unicode_range |-> entry.expr,
                                       filename      |-> filename,
                                       size          |-> st_size(made.file)]),
          !.writes = Append(@, [path |-> output_path(font_name, filename),
                                data |-> made.file]),
          !.k = @ + 1]
  ELSE [st EXCEPT !.stats.skipped_ranges = @ + 1, !.k = @ + 1]

\* The rest of an iteration once the range is parsed: parse_unicode_range is
\* called before the try, so its ValueError leaves the function.
after_parse(st, font_name, variant, entry, data, parsed) ==
  IF ~parsed.ok
  THEN [st EXCEPT !.raised = TRUE]
  ELSE record_result(st, font_name, entry,
                     output_filename(font_name, variant, entry.id),
                     create_subset(data, parsed.ranges))

\* One iteration of the loop over self.ranges.items().
range_step(st, font_name, variant, entry, data) ==
  after_parse(st, font_name, variant, entry, data,
              parse_unicode_range(entry.expr))

\* The two CSS files, from the two texts generate_css returned.
write_css_files(st, font_name, variant, css) ==
  [st EXCEPT
     !.writes = @ \o
        <<[path |-> output_path(font_name,
                                css_filename(font_name, variant, EXT_CSS)),
           data |-> CssData(css[1])],
          [path |-> output_path(font_name,
                                css_filename(font_name, variant, EXT_MIN_CSS)),
           data |-> CssData(css[2])]>>,
     !.css = TRUE]

\* After the loop: generate_css and the two CSS files.
write_css(st, font_name, variant_config) ==
  write_css_files(st, font_name, variant_config.variant,
                  generate_css(font_name, variant_config.variant,
                               variant_config.weight, st.stats.subsets))

RECURSIVE range_loop(_, _, _, _, _)
range_loop(st, font_name, variant, data, ranges) ==
  IF st.raised \/ st.k > Len(ranges) THEN st
  ELSE range_loop(range_step(st, font_name, variant, ranges[st.k], data),
                  font_name, variant, data, ranges)

\* What the call ends in once the loop is left.
after_loop(st, font_name, variant_config) ==
  IF st.raised THEN st ELSE write_css(st, font_name, variant_config)

\* The whole call: the state it ends in (raised, or returned with the CSS written).
process_font_variant(font_name, variant_config, data, ranges) ==
  after_loop(range_loop(variant_start(ranges), font_name,
                        variant_config.variant, data, ranges),
             font_name, variant_config)

(***************************************************************************)
(* utils.download_file and utils.extract_font_from_archive, on a temporary *)
(* file system: a function from paths [dir, name] to [data, by], by being  *)
(* the process_update invocation that created the file.                    *)
(***************************************************************************)

EXT_ZIP == <<".", "z", "i", "p">>
EXT_TTF == <<".", "t", "t", "f">>
EXT_OTF == <<".", "o", "t", "f">>

exists(fs, path) == path \in DOMAIN fs

put(fs, path, data, by) == (path :> [data |-> data, by |-> by]) @@ fs

\* download_file(url, output_path) with the network's answer dl:
\*   "ok"      the body is written and the call returns;
\*   "error"   requests.get / raise_for_status raises, no file is opened;
\*   "partial" the stream breaks after open(output_path, 'wb'): a truncated
\*             file is left and the call raises.
download_file(fs, body, path, by, dl) ==
  CASE dl = "ok"      -> [raised |-> FALSE, fs |-> put(fs, path, body, by)]
    [] dl = "partial" -> [raised |-> TRUE,  fs |-> put(fs, path, PartialData, by)]
    [] OTHER          -> [raised |-> TRUE,  fs |-> fs]

is_font_name(file_name) ==
  endswith(lower(file_name), EXT_TTF) \/ endswith(lower(file_name), EXT_OTF)

\* The first archive member the pattern is found in (ignoring case) that is
\* named *.ttf or *.otf; 0 when there is none.
first_font_entry(entries, pattern) ==
  IF \E k \in 1..Len(entries) :
       regex_search(pattern, entries[k].name, TRUE) /\ is_font_name(entries[k].name)
  THEN CHOOSE k \in 1..Len(entries) :
         /\ regex_search(pattern, entries[k].name, TRUE)
         /\ is_font_name(entries[k].name)
         /\ \A j \in 1..(k - 1) :
              ~(regex_search(pattern, entries[j].name, TRUE)
                /\ is_font_name(entries[j].name))
  ELSE 0

\* The extraction without the line that stores the path in the cache.
extract_entry_uncached(fs, entries, k, archive_path, output_dir, cache_key, cache, by) ==
  IF k = 0
  THEN [result |-> "none", path |-> archive_path, fs |-> fs, cache |-> cache]
  ELSE [result |-> "extracted",
        path   |-> [dir |-> output_dir, name |-> entries[k].name],
        fs     |-> put(fs, [dir |-> output_dir, name |-> entries[k].name],
                       entries[k].data, by),
        cache  |-> cache]

\* zip_ref.extract of member k (0: no member matched, None is returned).
extract_entry(fs, entries, k, archive_path, output_dir, cache_key, cache, by) ==
  IF k = 0
  THEN [result |-> "none", path |-> archive_path, fs |-> fs, cache |-> cache]
  ELSE [result |-> "extracted",
        path   |-> [dir |-> output_dir, name |-> entries[k].name],
        fs     |-> put(fs, [dir |-> output_dir, name |-> entries[k].name],
                       entries[k].data, by),
        cache  |-> (cache_key :> [dir |-> output_dir, name |-> entries[k].name])
                      @@ cache]

\* extract_font_from_archive(archive_path, output_dir, pattern, extraction_cache):
\* result "cached" or "extracted" (a path is returned), "none" (None is
\* returned) or "raise" (re.error, or zipfile.BadZipFile on a file that is no
\* archive).
extract_font_from_archive(fs, archive_path, output_dir, pattern, cache, by) ==
  IF <<archive_path, pattern>> \in DOMAIN cache
       /\ exists(fs, cache[<<archive_path, pattern>>])
  THEN [result |-> "cached", path |-> cache[<<archive_path, pattern>>],
        fs |-> fs, cache |-> cache]
  ELSE IF ~re_compile_ok(pattern) \/ fs[archive_path].data.kind # "zip"
       THEN [result |-> "raise", path |-> archive_path, fs |-> fs, cache |-> cache]
       ELSE extract_entry(fs, fs[archive_path].data.entries,
                          first_font_entry(fs[archive_path].data.entries, pattern),
                          archive_path, output_dir, <<archive_path, pattern>>,
                          cache, by)

(***************************************************************************)
(* One iteration of the loop over font_config['files'] in process_update   *)
(***************************************************************************)

\* What an iteration that goes on to the next file leaves behind.
iteration(outcome, url, fs, download_cache, extraction_cache) ==
  [outcome          |-> outcome,
   url              |-> url,
   download         |-> "none",
   cache_hit        |-> FALSE,
   existed          |-> FALSE,
   extraction       |-> "none",
   asset_path       |-> [dir |-> 0, name |-> <<>>],
   downloaded_path  |-> [dir |-> 0, name |-> <<>>],
   source           |-> [dir |-> 0, name |-> <<>>],
   fs               |-> fs,
   download_cache   |-> download_cache,
   extraction_cache |-> extraction_cache,
   writes           |-> <<>>,
   css              |-> FALSE]

\* process_font_variant returned or raised: either way the loop goes on.
processed(it, source, pv) ==
  [it EXCEPT !.outcome = IF pv.raised THEN "exception" ELSE "processed",
             !.source = source,
             !.writes = pv.writes,
             !.css = pv.css]

\* The archive branch with the extraction outside the try: its exception
\* leaves process_update.
after_extract_unguarded(it, font_name, file_config, ranges, ex) ==
  CASE ex.result = "raise" ->
         [it EXCEPT !.outcome = "raise", !.extraction = "raise"]
    [] ex.result = "none" ->
         [it EXCEPT !.outcome = "no_font_in_zip", !.extraction = "none"]
    [] OTHER ->
         processed([it EXCEPT !.extraction = ex.result,
                              !.fs = ex.fs,
                              !.extraction_cache = ex.cache],
                   ex.path,
                   process_font_variant(font_name, file_config,
                                        ex.fs[ex.path].data, ranges))

\* The archive branch once extract_font_from_archive has answered.
after_extract(it, font_name, file_config, ranges, ex) ==
  CASE ex.result = "raise" ->
         [it EXCEPT !.outcome = "exception", !.extraction = "raise"]
    [] ex.result = "none" ->
         [it EXCEPT !.outcome = "no_font_in_zip", !.extraction = "none"]
    [] OTHER ->
         processed([it EXCEPT !.extraction = ex.result,
                              !.fs = ex.fs,
                              !.extraction_cache = ex.cache],
                   ex.path,
                   process_font_variant(font_name, file_config,
                                        ex.fs[ex.path].data, ranges))

\* font_pattern if there is one, else f".*{font_name}.*"
search_pattern(font_name, font_pattern) ==
  IF font_pattern # None /\ font_pattern # <<>>
  THEN font_pattern
  ELSE <<".*">> \o font_name \o <<".*">>

\* Which branch of lines 314-339 the asset's file name takes.
file_type(asset_filename) ==
  IF endswith(lower(asset_filename), EXT_ZIP) THEN "zip"
  ELSE IF endswith(lower(asset_filename), EXT_TTF)
            \/ endswith(lower(asset_filename), EXT_OTF)
       THEN "font"
       ELSE "unsupported"

\* Lines 310-353: the file type, the extraction, process_font_variant; every
\* exception is caught and the loop continues.
handle_downloaded(it, font_name, file_config, kind, temp_dir, ranges, by) ==
  CASE kind = "zip" ->
         after_extract(it, font_name, file_config, ranges,
                       extract_font_from_archive(
                         it.fs, it.downloaded_path, temp_dir,
                         search_pattern(font_name, file_config.font_pattern),
                         it.extraction_cache, by))
    [] kind = "font" ->
         processed(it, it.downloaded_path,
                   process_font_variant(font_name, file_config,
                                        it.fs[it.downloaded_path].data, ranges))
    [] OTHER -> [it EXCEPT !.outcome = "unsupported"]

\* The download without the line that stores the URL in the cache.
try_download_uncached(it, download_url, dl, got) ==
  IF got.raised
  THEN [it EXCEPT !.outcome = "download_failed", !.download = dl, !.fs = got.fs]
  ELSE [it EXCEPT !.download = dl, !.fs = got.fs]

\* download_file inside its try/except: on a raise the iteration is over.
try_download(it, download_url, dl, got) ==
  IF got.raised
  THEN [it EXCEPT !.outcome = "download_failed", !.download = dl, !.fs = got.fs]
  ELSE [it EXCEPT !.download = dl,
                  !.fs = got.fs,
                  !.download_cache = (download_url :> it.asset_path) @@ @]

\* Lines 286-308: the cache is asked first, then the destination path; only
\* then is the asset downloaded.  outcome "" means the iteration goes on.
download_step(it, download_url, remote, by, dl) ==
  IF download_url \in DOMAIN it.download_cache
  THEN [it EXCEPT !.cache_hit = TRUE,
                  !.downloaded_path = it.download_cache[download_url]]
  ELSE IF exists(it.fs, it.asset_path)
       THEN [it EXCEPT !.existed = TRUE,
                       !.download_cache = (download_url :> it.asset_path) @@ @]
       ELSE try_download(it, download_url, dl,
                         download_file(it.fs, remote, it.asset_path, by, dl))

\* The iteration after the download step.
after_download(it, font_name, file_config, asset_filename, temp_dir, ranges, by) ==
  IF it.outcome = "download_failed" THEN it
  ELSE handle_downloaded(it, font_name, file_config, file_type(asset_filename),
                         temp_dir, ranges, by)

\* The iteration once the asset is found (a = 0: no asset matches).
with_asset(it, update_info, file_config, a, remote_of, temp_dir, ranges, by, dl) ==
  IF a = 0 THEN [it EXCEPT !.outcome = "no_asset"]
  ELSE after_download(
         download_step(
           [it EXCEPT !.url = update_info.assets[a].browser_download_url,
                      !.asset_path = [dir |-> temp_dir,
                                      name |-> update_info.assets[a].name],
                      !.downloaded_path = [dir |-> temp_dir,
                                           name |-> update_info.assets[a].name]],
           update_info.assets[a].browser_download_url,
           remote_of[update_info.assets[a].browser_download_url], by, dl),
         update_info.name, file_config, update_info.assets[a].name, temp_dir,
         ranges, by)

\* Lines 270-353 for one file_config.  outcome "raise" is an exception that
\* leaves process_update: re.error from find_asset_by_pattern, which is called
\* outside every try.
variant_iteration(update_info, file_config, remote_of, temp_dir, fs, download_cache, extraction_cache, ranges, by, dl) ==
  IF file_config.asset_pattern = None \/ file_config.asset_pattern = <<>>
  THEN iteration("no_asset_pattern", "", fs, download_cache, extraction_cache)
  ELSE IF ~re_compile_ok(file_config.asset_pattern)
       THEN iteration("raise", "", fs, download_cache, extraction_cache)
       ELSE with_asset(iteration("", "", fs, download_cache, extraction_cache),
                       update_info, file_config,
                       find_asset_by_pattern(update_info.assets,
                                             file_config.asset_pattern),
                       remote_of, temp_dir, ranges, by, dl)

(***************************************************************************)
(* The files the scripts read: config/fonts.json, config/unicode_ranges.json*)
(* and the releases of the font repositories.                              *)
(***************************************************************************)

\* Font binaries.  FontFull has a corrupt glyph at code point 4.
FontLatin  == FontData(TRUE, {0, 1, 2}, {})
FontFull   == FontData(TRUE, {1, 4, 8, 11}, {4})
FontNoCmap == FontData(FALSE, {}, {})

\* What each download URL serves.
Remote ==
  [u \in {"u1", "u2", "u3", "u4", "u5"} |->
     CASE u = "u1" -> ZipData(<<[name |-> <<"n", ".", "t", "x", "t">>,
                                 data |-> PartialData],
                                [name |-> <<"A", "-", "R", ".", "t", "t", "f">>,
                                 data |-> FontLatin],
                                [name |-> <<"A", "-", "B", ".", "T", "T", "F">>,
                                 data |-> FontFull]>>)
       [] u = "u2" -> PartialData
       [] u = "u3" -> FontFull
       [] u = "u4" -> ZipData(<<[name |-> <<"c", ".", "o", "t", "f">>,
                                 data |-> FontNoCmap]>>)
       [] OTHER    -> ZipData(<<[name |-> <<"A", "-", "R", ".", "t", "t", "f">>,
                                 data |-> FontFull]>>)]

ZipAsset(u) == [name |-> <<"A", ".", "z", "i", "p">>, browser_download_url |-> u]

\* get_latest_release(repo): the latest release of each repository.
Release ==
  [repo \in {"ra", "rb", "rc", "ra2", "rd"} |->
     [tag_name |-> "v1",
      assets   |->
        CASE repo = "ra"  -> <<ZipAsset("u1")>>
          [] repo = "rb"  -> <<[name |-> <<"B", ".", "t", "x", "t">>,
                                browser_download_url |-> "u2"],
                               [name |-> <<"B", ".", "t", "t", "f">>,
                                browser_download_url |-> "u3"]>>
          [] repo = "rc"  -> <<[name |-> <<"C", ".", "Z", "I", "P">>,
                                browser_download_url |-> "u4"]>>
          [] repo = "ra2" -> <<ZipAsset("u5")>>
          [] OTHER        -> <<>>]]

FileConfig(variant, weight, asset_pattern, font_pattern) ==
  [variant |-> variant, weight |-> weight,
   asset_pattern |-> asset_pattern, font_pattern |-> font_pattern]

PatZip == <<"z", "i", "p">>

\* Three variants cut from one archive; the third asks for the first one's
\* font file again.
FontA ==
  [name |-> <<"A">>, repo |-> "ra",
   files |-> <<FileConfig(<<"r">>, 400, PatZip, <<"R">>),
               FileConfig(<<"b">>, 700, PatZip, <<"B">>),
               FileConfig(<<"x">>, 400, PatZip, <<"R">>)>>]

\* A font file of its own, a pattern no asset has, and a pattern whose first
\* match (B.txt) is no font.
FontB ==
  [name |-> <<"B">>, repo |-> "rb",
   files |-> <<FileConfig(<<"r">>, 400, <<"t", "t", "f">>, None),
               FileConfig(<<"b">>, 700, <<"Q">>, None),
               FileConfig(<<"i">>, 400, <<"B", ".", "t">>, None)>>]

\* An archive searched with the pattern derived from the font name, then an
\* asset pattern that is no regular expression.
FontC ==
  [name |-> <<"C">>, repo |-> "rc",
   files |-> <<FileConfig(<<"r">>, 400, <<"C">>, None),
               FileConfig(<<"b">>, 700, <<"(">>, None)>>]

\* A second configuration of the name "A": no font file of the archive matches,
\* no asset_pattern, then a variant that is built.
FontA2 ==
  [name |-> <<"A">>, repo |-> "ra",
   files |-> <<FileConfig(<<"r">>, 400, PatZip, <<"Q">>),
               FileConfig(<<"b">>, 700, None, None),
               FileConfig(<<"x">>, 400, PatZip, <<"R">>)>>]

\* The same font name again, tracking another repository.
FontA3 == [FontA2 EXCEPT !.repo = "ra2"]

FontD == [name |-> <<"D">>, repo |-> "rd", files |-> <<>>]

\* --config of check_updates.py and --config of process_fonts.py.
Scenarios ==
  {[check |-> <<FontA, FontC, FontB>>,   proc |-> <<FontA, FontB, FontC>>],
   [check |-> <<FontA2, FontA3, FontD>>, proc |-> <<FontA2, FontA3>>]}

Entry(id, expr) == [id |-> id, expr |-> expr]

\* config/unicode_ranges.json, in the order of its keys.
CatalogGood ==
  <<Entry(<<"l">>, <<"U", "+", "0", "-", "3">>),
    Entry(<<"s">>, <<"U", "+", "4", "-", "5">>),
    Entry(<<"c">>, <<"U", "+", "8", "-", "9", ",", "B">>)>>

CatalogBad == [CatalogGood EXCEPT ![2].expr = <<"U", "+", "4", "-", "G">>]

Catalogs == {CatalogGood, CatalogBad}

\* The largest --threads tried.
MaxThreads == 2

(***************************************************************************)
(* check_updates.check_updates and the ledger update of main               *)
(***************************************************************************)

\* current_versions.get(font_name, {}).get('version')
current_version(versions, font_name) ==
  IF font_name \in DOMAIN versions THEN versions[font_name].version ELSE "None"

\* The update list: the fonts, in configuration order, whose release was
\* fetched (k \in fetched_ok; get_latest_release raised for the others) and
\* whose ledger version differs from the release's tag.
RECURSIVE check_updates(_, _, _, _)
check_updates(fonts, versions, fetched_ok, k) ==
  IF k > Len(fonts) THEN <<>>
  ELSE LET font    == fonts[k]
           release == Release[font.repo]
           rest    == check_updates(fonts, versions, fetched_ok, k + 1)
       IN  IF k \in fetched_ok
              /\ current_version(versions, font.name) # release.tag_name
           THEN <<[name    |-> font.name,
                   repo    |-> font.repo,
                   version |-> release.tag_name,
                   assets  |-> release.assets]>> \o rest
           ELSE rest

\* main, lines 443-447: an entry for every update of the list.
RECURSIVE update_versions(_, _, _)
update_versions(versions, updates, k) ==
  IF k > Len(updates) THEN versions
  ELSE update_versions(
         (updates[k].name :> [version |-> updates[k].version, updated_at |-> ""])
            @@ versions,
         updates, k + 1)

(***************************************************************************)
(* The fleet: main of process_fonts.py                                     *)
(***************************************************************************)

Min(a, b) == IF a < b THEN a ELSE b

\* len(updates) > 1 and args.threads > 1
use_pool(n_threads, n_updates) == n_updates > 1 /\ n_threads > 1

\* A pool as large as the update list, whatever --threads says.
font_workers_unbounded(n_threads, n_updates) == n_updates

\* font_workers = min(args.threads, len(updates)): max_workers of the pool.
font_workers(n_threads, n_updates) == Min(n_threads, n_updates)

\* tempfile.TemporaryDirectory() of invocation i: a directory of its own.
mkdtemp(i) == i

\* One cache object kept by the processor and handed to every invocation.
new_cache_shared(i) == 1

\* download_cache = {} and extraction_cache = {} of invocation i: new objects.
new_cache(i) == i

\* The index of the first font of the configuration with this name, 0 if none.
find_font_config(fonts, font_name) ==
  IF \E k \in 1..Len(fonts) : fonts[k].name = font_name
  THEN CHOOSE k \in 1..Len(fonts) :
         fonts[k].name = font_name /\ \A j \in 1..(k - 1) : fonts[j].name # font_name
  ELSE 0

\* Leaving the with-block of the temporary directory removes it.
cleanup(fs, temp_dir) ==
  [p \in {q \in DOMAIN fs : q.dir # temp_dir} |-> fs[p]]

RECURSIVE write_all(_, _, _)
write_all(fs, writes, k) ==
  IF k > Len(writes) THEN fs
  ELSE write_all((writes[k].path :> writes[k].data) @@ fs, writes, k + 1)

NoTask ==
  [status |-> "pending", font |-> 0, vi |-> 0, temp_dir |-> 0, cache |-> 0,
   log |-> <<>>]

NoCall ==
  [active |-> FALSE, font_name |-> <<>>, variant_config |-> FileConfig(<<>>, 0, None, None),
   data |-> PartialData, st |-> variant_start(<<>>)]

\* No helper is being called on its own.
NoHelperCall ==
  [fn |-> "none", tokens |-> <<>>, expr |-> <<>>, triple |-> <<>>,
   returned |-> FALSE, result |-> <<>>]

VARIABLES
  pc,            \* where the scheduled run is: check, checked, pool, seq, done
  scenario,      \* the two fonts.json
  ranges,        \* self.ranges: the catalog
  threads,       \* args.threads
  versions,      \* data/versions.json: the version ledger
  updates,       \* data/updates.json
  fetched,       \* the font names whose release the last check fetched
  task,          \* per update: the state of its process_update invocation
  caches,        \* the cache objects of the invocations
  temp_fs,       \* the temporary directories
  out_fs,        \* what this fleet run wrote under output_dir
  writers,       \* <<path, invocation>> of every output write of this run
  touched,       \* <<invocation, creator>> of every cache or temp file used
  completed,     \* main's counter of collected futures
  failed,        \* main's counter of futures that raised
  collected,     \* the futures main has collected
  seq_i,         \* the sequential loop's index
  failed_last,   \* the font names whose update failed in the run just ended
  ledger_writes, \* the font names the ledger update of that run wrote
  pv,            \* a process_font_variant call followed range by range
  call           \* a call of one of the helpers of utils.py, and what it returned

vars ==
  <<pc, scenario, ranges, threads, versions, updates, fetched, task, caches,
    temp_fs, out_fs, writers, touched, completed, failed, collected, seq_i,
    failed_last, ledger_writes, pv, call>>

world == <<scenario, ranges, threads>>

run_state ==
  <<task, caches, temp_fs, out_fs, writers, touched, completed, failed,
    collected, seq_i>>

\* The process_update invocations main has set up, one per update.
Tasks == DOMAIN task

Running == {i \in Tasks : task[i].status = "running"}

Finished(i) == task[i].status \in {"done", "raised"}

\* The update did not succeed: process_update raised, no configuration was
\* found for the font, or a variant's download failed.
update_failed(t) ==
  \/ t.status = "raised"
  \/ t.font = 0
  \/ \E k \in 1..Len(t.log) : t.log[k].outcome = "download_failed"

Init ==
  /\ pc = "check"
  /\ scenario \in Scenarios
  /\ ranges \in Catalogs
  /\ threads \in 1..MaxThreads
  /\ versions = <<>>
  /\ updates = <<>>
  /\ fetched = {}
  /\ task = <<>>
  /\ caches = <<>>
  /\ temp_fs = <<>>
  /\ out_fs = <<>>
  /\ writers = {}
  /\ touched = {}
  /\ completed = 0
  /\ failed = 0
  /\ collected = {}
  /\ seq_i = 1
  /\ failed_last = {}
  /\ ledger_writes = {}
  /\ pv = NoCall
  /\ call = NoHelperCall

\* check_updates.py: the update list is computed from the ledger and the
\* releases that could be fetched.
CheckUpdates ==
  /\ pc = "check"
  /\ \E fetched_ok \in SUBSET (1..Len(scenario.check)) :
       /\ updates' = check_updates(scenario.check, versions, fetched_ok, 1)
       /\ fetched' = {scenario.check[k].name : k \in fetched_ok}
  /\ pc' = "checked"
  /\ UNCHANGED <<world, versions, run_state, failed_last, ledger_writes, pv, call>>

\* has_updates=false: process_fonts.py is not run.
NoUpdates ==
  /\ pc = "checked"
  /\ updates = <<>>
  /\ pc' = "check"
  /\ fetched' = {}
  /\ failed_last' = {}
  /\ ledger_writes' = {}
  /\ UNCHANGED <<world, versions, updates, run_state, pv, call>>

\* main up to the choice of the branch: the pool (every update submitted) or
\* the sequential loop.
MainStart ==
  /\ pc = "checked"
  /\ updates # <<>>
  /\ pc' = IF use_pool(threads, Len(updates)) THEN "pool" ELSE "seq"
  /\ task' = [i \in 1..Len(updates) |-> NoTask]
  /\ caches' = <<>>
  /\ temp_fs' = <<>>
  /\ out_fs' = <<>>
  /\ writers' = {}
  /\ touched' = {}
  /\ completed' = 0
  /\ failed' = 0
  /\ collected' = {}
  /\ seq_i' = 1
  /\ failed_last' = {}
  /\ ledger_writes' = {}
  /\ UNCHANGED <<world, versions, updates, fetched, pv, call>>

\* A pool whose workers each take one update and then stop: the updates
\* beyond the first max_workers are never taken.
CanStart_no_reuse(i) ==
  /\ task[i].status = "pending"
  /\ IF pc = "pool"
     THEN i <= font_workers(threads, Len(updates))
     ELSE pc = "seq" /\ seq_i = i

\* A worker of the pool takes the oldest queued update while fewer than
\* max_workers are busy; the sequential loop calls process_update for its
\* current index.
CanStart(i) ==
  /\ task[i].status = "pending"
  /\ IF pc = "pool"
     THEN /\ \A j \in 1..(i - 1) : task[j].status # "pending"
          /\ Cardinality(Running) < font_workers(threads, Len(updates))
     ELSE pc = "seq" /\ seq_i = i

\* process_update, lines 238-267: the font's configuration is looked up; with
\* none the call returns, else the temporary directory and the caches are made.
Begin(i) ==
  /\ pc \in {"pool", "seq"}
  /\ CanStart(i)
  /\ LET f == find_font_config(scenario.proc, updates[i].name)
     IN  IF f = 0
         THEN /\ task' = [task EXCEPT ![i].status = "done"]
              /\ UNCHANGED caches
         ELSE /\ task' = [task EXCEPT ![i] =
                            [@ EXCEPT !.status = "running", !.font = f, !.vi = 1,
                                      !.temp_dir = mkdtemp(i),
                                      !.cache = new_cache(i)]]
              /\ caches' = (new_cache(i) :>
                              [creator |-> i, download_cache |-> <<>>,
                               extraction_cache |-> <<>>]) @@ caches
  /\ UNCHANGED <<pc, world, versions, updates, fetched, temp_fs, out_fs,
                 writers, touched, completed, failed, collected, seq_i,
                 failed_last, ledger_writes, pv, call>>

LogEntry(it) ==
  [outcome |-> it.outcome, url |-> it.url, download |-> it.download,
   cache_hit |-> it.cache_hit, existed |-> it.existed,
   extraction |-> it.extraction, archive |-> it.downloaded_path,
   source |-> it.source, css |-> it.css]

\* One iteration of the loop over the font's files, with the answer dl of the
\* network should the iteration download.
ProcessVariant(i) ==
  /\ pc \in {"pool", "seq"}
  /\ task[i].status = "running"
  /\ task[i].vi <= Len(scenario.proc[task[i].font].files)
  /\ \E dl \in {"ok", "error", "partial"} :
     \E it \in {variant_iteration(
                    updates[i], scenario.proc[task[i].font].files[task[i].vi],
                    Remote, task[i].temp_dir, temp_fs,
                    caches[task[i].cache].download_cache,
                    caches[task[i].cache].extraction_cache, ranges, i, dl)} :
       LET t  == task[i]
           c  == caches[t.cache]
           used == {it.asset_path, it.downloaded_path, it.source} \cap DOMAIN it.fs
       IN  /\ it.download \in {"none", dl}
           /\ IF it.outcome = "raise"
              THEN /\ task' = [task EXCEPT ![i].status = "raised",
                                           ![i].log = Append(@, LogEntry(it))]
                   /\ temp_fs' = cleanup(temp_fs, t.temp_dir)
                   /\ UNCHANGED <<caches, out_fs, writers>>
              ELSE /\ task' = [task EXCEPT ![i].vi = @ + 1,
                                           ![i].log = Append(@, LogEntry(it))]
                   /\ temp_fs' = it.fs
                   /\ caches' = [caches EXCEPT
                                   ![t.cache].download_cache = it.download_cache,
                                   ![t.cache].extraction_cache = it.extraction_cache]
                   /\ out_fs' = write_all(out_fs, it.writes, 1)
                   /\ writers' = writers \cup
                                   {<<it.writes[k].path, i>> : k \in 1..Len(it.writes)}
           /\ touched' = touched \cup {<<i, c.creator>>}
                                 \cup {<<i, it.fs[p].by>> : p \in used}
  /\ UNCHANGED <<pc, world, versions, updates, fetched, completed, failed,
                 collected, seq_i, failed_last, ledger_writes, pv, call>>

\* The loop is over: the temporary directory is removed and process_update
\* returns.
End(i) ==
  /\ pc \in {"pool", "seq"}
  /\ task[i].status = "running"
  /\ task[i].vi > Len(scenario.proc[task[i].font].files)
  /\ task' = [task EXCEPT ![i].status = "done"]
  /\ temp_fs' = cleanup(temp_fs, task[i].temp_dir)
  /\ UNCHANGED <<pc, world, versions, updates, fetched, caches, out_fs, writers,
                 touched, completed, failed, collected, seq_i, failed_last,
                 ledger_writes, pv, call>>

\* The as_completed loop of main takes a finished future: it is counted, and
\* counted as failed when it raised.
Collect(i) ==
  /\ pc = "pool"
  /\ Finished(i)
  /\ i \notin collected
  /\ collected' = collected \cup {i}
  /\ completed' = completed + 1
  /\ failed' = IF task[i].status = "raised" THEN failed + 1 ELSE failed
  /\ UNCHANGED <<pc, world, versions, updates, fetched, task, caches, temp_fs,
                 out_fs, writers, touched, seq_i, failed_last, ledger_writes, pv, call>>

\* The sequential loop: process_update returned or its exception was caught,
\* and the loop goes on to the next update.
SeqNext ==
  /\ pc = "seq"
  /\ seq_i <= Len(updates)
  /\ Finished(seq_i)
  /\ seq_i' = seq_i + 1
  /\ UNCHANGED <<pc, world, versions, updates, fetched, task, caches, temp_fs,
                 out_fs, writers, touched, completed, failed, collected,
                 failed_last, ledger_writes, pv, call>>

\* A sequential loop that an exception of process_update ends.
BranchOver_break_on_failure ==
  IF pc = "pool" THEN collected = Tasks /\ Running = {}
  ELSE /\ pc = "seq"
       /\ \/ seq_i > Len(updates)
          \/ seq_i <= Len(updates) /\ task[seq_i].status = "raised"

\* A pool that is left as soon as the first future is collected, its workers
\* not joined (shutdown(wait=False) after a break out of as_completed).
BranchOver_no_join ==
  IF pc = "pool" THEN collected # {}
  ELSE pc = "seq" /\ seq_i > Len(updates)

\* Both branches are over (the with-block of the pool has joined its workers).
BranchOver ==
  IF pc = "pool" THEN collected = Tasks /\ Running = {}
  ELSE pc = "seq" /\ seq_i > Len(updates)

\* main, lines 437-451: the ledger is read, updated and written.
WriteLedger ==
  /\ BranchOver
  /\ versions' = update_versions(versions, updates, 1)
  /\ ledger_writes' =
       {n \in {updates[k].name : k \in Tasks} :
          current_version(versions', n) # current_version(versions, n)}
  /\ failed_last' = {updates[k].name : k \in {j \in Tasks : update_failed(task[j])}}
  /\ pc' = "done"
  /\ UNCHANGED <<world, updates, fetched, run_state, pv, call>>

\* The next scheduled run begins.
NextRun ==
  /\ pc = "done"
  /\ pc' = "check"
  /\ updates' = <<>>
  /\ fetched' = {}
  /\ task' = <<>>
  /\ caches' = <<>>
  /\ temp_fs' = <<>>
  /\ out_fs' = <<>>
  /\ writers' = {}
  /\ touched' = {}
  /\ completed' = 0
  /\ failed' = 0
  /\ collected' = {}
  /\ seq_i' = 1
  /\ UNCHANGED <<world, versions, failed_last, ledger_writes, pv, call>>

Next ==
  \/ CheckUpdates
  \/ NoUpdates
  \/ MainStart
  \/ \E i \in Tasks : Begin(i)
  \/ \E i \in Tasks : ProcessVariant(i)
  \/ \E i \in Tasks : End(i)
  \/ \E i \in Tasks : Collect(i)
  \/ SeqNext
  \/ WriteLedger
  \/ NextRun

Spec == Init /\ [][Next]_vars

(***************************************************************************)
(* Properties of the fleet run                                             *)
(***************************************************************************)

\* C1: after a fleet run the ledger receives a new entry only for the fonts
\* whose update succeeded: a font whose process_update raised, whose variant
\* failed to download, or that has no font configuration gets no ledger write.
C1_LedgerOnlyForSucceeded ==
  pc = "done" =>
    \A i \in Tasks : update_failed(task[i]) => updates[i].name \notin ledger_writes

\* C2: in both branches of main, a process_update that raises for one font
\* never cancels or skips another font: when main goes on to the ledger every
\* update has been taken up and either raised itself or went through all the
\* variants of its configuration, and in the pool every future was collected.
C2_FailureIsolated ==
  pc = "done" =>
    /\ \A i \in Tasks :
         \/ task[i].status = "raised"
         \/ /\ task[i].status = "done"
            /\ \/ task[i].font = 0
               \/ Len(task[i].log) = Len(scenario.proc[task[i].font].files)
    /\ use_pool(threads, Len(updates)) => collected = Tasks

\* A pool run in which an update raised and a later update of the list went
\* through all its variants.
C2_Witness ==
  /\ pc = "done"
  /\ use_pool(threads, Len(updates))
  /\ \E i, j \in Tasks :
       /\ i < j
       /\ task[i].status = "raised"
       /\ task[j].status = "done"
       /\ task[j].font # 0
       /\ Len(task[j].log) = Len(scenario.proc[task[j].font].files)

\* C3 as stated: for the variants of one update that resolve to the same URL,
\* download_file executes exactly once and every later variant is served from
\* the download cache.
C3_DownloadExactlyOnce ==
  \A i \in Tasks : \A k \in 1..Len(task[i].log) :
    LET log  == task[i].log
        same == {m \in 1..Len(log) : log[m].url = log[k].url}
    IN  log[k].url # "" =>
          /\ Cardinality({m \in same : log[m].download # "none"}) = 1
          /\ \A m \in same : (\E j \in same : j < m) => log[m].cache_hit

\* C3, amended: once a URL is in the download cache (its download returned, or
\* its destination file was found to exist) every later variant with that URL
\* is served from the cache and download_file is not called; download_file
\* runs again for a URL only after every earlier call for it raised.
C3_DownloadedOncePerCachedUrl ==
  \A i \in Tasks : \A k, m \in 1..Len(task[i].log) :
    LET log == task[i].log
    IN  (k < m /\ log[k].url # "" /\ log[k].url = log[m].url) =>
          /\ (log[k].download = "ok" \/ log[k].cache_hit \/ log[k].existed)
               => (log[m].cache_hit /\ log[m].download = "none")
          /\ log[m].download # "none" => log[k].download \in {"error", "partial"}

\* Two variants of one update with the same URL: the first downloaded it, the
\* second was served from the cache.
C3_Witness ==
  \E i \in Tasks : \E k, m \in 1..Len(task[i].log) :
    /\ k < m
    /\ task[i].log[k].url = task[i].log[m].url
    /\ task[i].log[k].download = "ok"
    /\ task[i].log[m].cache_hit
    /\ task[i].log[m].download = "none"

\* C4: a variant that fails at asset resolution (no matching asset), at
\* download or at extraction is skipped on its own: process_update does not
\* raise because of it, and the next variant of the configuration is attempted.
C4_VariantFailureSkipped ==
  \A i \in Tasks :
    LET t == task[i]
    IN  t.font # 0 =>
          /\ \A k \in 1..Len(t.log) :
               (\/ t.log[k].outcome \in {"no_asset", "download_failed", "no_font_in_zip"}
                \/ t.log[k].download \in {"error", "partial"}
                \/ t.log[k].extraction = "raise")
               => /\ t.log[k].outcome # "raise"
                  /\ \/ k < Len(t.log)
                     \/ t.status = "running" /\ t.vi = k + 1
                     \/ t.status = "done" /\ k = Len(scenario.proc[t.font].files)
          /\ t.status = "done" => Len(t.log) = Len(scenario.proc[t.font].files)

\* An update that returned, one of whose variants failed in one of the three
\* ways while a later one was processed.
C4_Witness ==
  \E i \in Tasks : \E k, m \in 1..Len(task[i].log) :
    /\ task[i].status = "done"
    /\ k < m
    /\ \/ task[i].log[k].outcome \in {"no_asset", "download_failed", "no_font_in_zip"}
       \/ task[i].log[k].extraction = "raise"
    /\ task[i].log[m].outcome = "processed"

\* C7: the process_update invocations in progress never number more than
\* min(b, fontCount) when fontCount > 1 and b > 1; otherwise there is at most
\* one, and the updates are taken in list order, each after the one before it
\* has finished.
C7_WorkerBound ==
  pc \in {"pool", "seq"} =>
    IF Len(updates) > 1 /\ threads > 1
    THEN Cardinality(Running) <= Min(threads, Len(updates))
    ELSE /\ Cardinality(Running) <= 1
         /\ \A i \in Tasks :
              task[i].status # "pending" => \A j \in 1..(i - 1) : Finished(j)

\* The pool is full with fewer workers than updates: one update waits.
C7_Witness ==
  /\ pc = "pool"
  /\ threads < Len(updates)
  /\ Cardinality(Running) = threads
  /\ \E i \in Tasks : task[i].status = "pending"

\* C8: no cache entry and no temporary file created by one process_update is
\* read or written by another; each invocation works on caches it created.
C8_CachesNotShared ==
  /\ \A p \in touched : p[1] = p[2]
  /\ \A i \in Tasks :
       task[i].status = "running" => caches[task[i].cache].creator = i

\* Two updates in progress at once, each with a download in its own cache and
\* each having used its cache and its temporary files.
C8_Witness ==
  \E i, j \in Running :
    /\ i # j
    /\ <<i, i>> \in touched
    /\ <<j, j>> \in touched
    /\ caches[task[i].cache].download_cache # <<>>
    /\ caches[task[j].cache].download_cache # <<>>

\* C9 as stated: while the workers of the pool run, no two of them write the
\* same output path, and every path a worker writes lies under the directory
\* named after its font.
C9_NoSharedOutputPath ==
  pc = "pool" =>
    /\ \A w1, w2 \in writers : w1[1] = w2[1] => w1[2] = w2[2]
    /\ \A w \in writers : w[1].dir = updates[w[2]].name

\* C9, amended: every path a worker writes lies under the directory named
\* after its font, so two workers write the same path only when their updates
\* carry the same font name.
C9_OutputPartitionedByName ==
  /\ \A w \in writers : w[1].dir = updates[w[2]].name
  /\ \A w1, w2 \in writers :
       w1[1] = w2[1] => updates[w1[2]].name = updates[w2[2]].name

\* Two workers of the pool, on fonts of different names, have both written
\* subsets and CSS.
C9_Witness ==
  /\ pc = "pool"
  /\ \E w1, w2 \in writers :
       /\ w1[2] # w2[2]
       /\ updates[w1[2]].name # updates[w2[2]].name
       /\ w1[1].name.ext = EXT_CSS
       /\ w2[1].name.ext = EXT_WOFF2

\* C10: a font whose update failed in one full run is reported again by the
\* check_updates of the next full run (when its release can be fetched).
C10_FailedFontRetried ==
  pc = "checked" =>
    \A n \in failed_last \cap fetched :
      \E k \in 1..Len(updates) : updates[k].name = n

(***************************************************************************)
(* One call of process_font_variant, followed range by range               *)
(***************************************************************************)

\* Range expressions put in the place of one of the catalog's: one that does
\* not parse, a single code point, and a range whose end is below its start.
AltExprs ==
  {<<"U", "+", "4", "-", "G">>, <<"U", "+", "1">>, <<"U", "+", "3", "-", "0">>}

VariantCatalogs ==
  {CatalogGood} \cup
  {[CatalogGood EXCEPT ![k].expr = e] : k \in 1..Len(CatalogGood), e \in AltExprs}

\* The files process_update may hand to process_font_variant.
VariantFonts == {FontLatin, FontFull, FontNoCmap, PartialData}

\* process_font_variant is entered for a variant of a configured font, with a
\* font file and the catalog.
InitVariant ==
  /\ pc = "variant"
  /\ scenario \in Scenarios
  /\ ranges \in VariantCatalogs
  /\ threads = 1
  /\ versions = <<>>
  /\ updates = <<>>
  /\ fetched = {}
  /\ task = <<>>
  /\ caches = <<>>
  /\ temp_fs = <<>>
  /\ out_fs = <<>>
  /\ writers = {}
  /\ touched = {}
  /\ completed = 0
  /\ failed = 0
  /\ collected = {}
  /\ seq_i = 1
  /\ failed_last = {}
  /\ ledger_writes = {}
  /\ \E f \in 1..Len(scenario.proc) :
       \E v \in 1..Len(scenario.proc[f].files) :
         \E data \in VariantFonts :
           pv = [active         |-> TRUE,
                 font_name      |-> scenario.proc[f].name,
                 variant_config |-> scenario.proc[f].files[v],
                 data           |-> data,
                 st             |-> variant_start(ranges)]
  /\ call = NoHelperCall

\* One iteration of the loop over the catalog.
VariantRange ==
  /\ pc = "variant"
  /\ pv.active
  /\ ~pv.st.raised
  /\ ~pv.st.css
  /\ pv.st.k <= Len(ranges)
  /\ pv' = [pv EXCEPT !.st = range_step(pv.st, pv.font_name,
                                        pv.variant_config.variant,
                                        ranges[pv.st.k], pv.data)]
  /\ UNCHANGED <<pc, world, versions, updates, fetched, run_state, failed_last,
                 ledger_writes, call>>

\* The loop is over: the CSS is generated and written, and the call returns.
VariantCss ==
  /\ pc = "variant"
  /\ pv.active
  /\ ~pv.st.raised
  /\ ~pv.st.css
  /\ pv.st.k > Len(ranges)
  /\ pv' = [pv EXCEPT !.st = write_css(pv.st, pv.font_name, pv.variant_config)]
  /\ UNCHANGED <<pc, world, versions, updates, fetched, run_state, failed_last,
                 ledger_writes, call>>

NextVariant ==
  \/ VariantRange
  \/ VariantCss

SpecVariant == InitVariant /\ [][NextVariant]_vars

\* C5: a range whose build raises is counted in skipped_ranges and appends
\* nothing to the list of built subsets; the loop goes on to the next range,
\* so the call is never ended by it (it raises only at an entry whose
\* expression does not parse), and a call that returns has gone through every
\* range and written the CSS.
C5_BuildFailureSkipped ==
  pv.active =>
    LET st      == pv.st
        parsed  == [j \in 1..Len(ranges) |-> parse_unicode_range(ranges[j].expr)]
        made    == [j \in 1..Len(ranges) |->
                      IF parsed[j].ok
                      THEN create_subset(pv.data, parsed[j].ranges).result
                      ELSE "unparsed"]
        before  == {j \in 1..Len(ranges) : j < st.k}
    IN  /\ \A j \in before :
             made[j] = "raise" =>
               \A n \in 1..Len(st.stats.subsets) : st.stats.subsets[n].id # ranges[j].id
        /\ st.stats.skipped_ranges = Cardinality({j \in before : made[j] # "built"})
        /\ st.stats.created_subsets = Len(st.stats.subsets)
        /\ st.raised => (st.k <= Len(ranges) /\ made[st.k] = "unparsed")
        /\ st.css => (~st.raised /\ st.k = Len(ranges) + 1)

\* A call that returned with the CSS written, in which the build of one range
\* raised and a later range was built.
C5_Witness ==
  /\ pv.active
  /\ pv.st.css
  /\ pv.st.stats.skipped_ranges > 0
  /\ \E j \in 1..(Len(ranges) - 1) :
       /\ parse_unicode_range(ranges[j].expr).ok
       /\ create_subset(pv.data, parse_unicode_range(ranges[j].expr).ranges).result
            = "raise"
       /\ \E n \in 1..Len(pv.st.stats.subsets) :
            pv.st.stats.subsets[n].id = ranges[j + 1].id

\* C6: a catalog entry whose range expression does not parse is fatal to that
\* entry only: the call does not raise, and when it is over every other entry
\* that can be built is in the list of built subsets and the CSS is written.
C6_MalformedEntryOnly ==
  pv.active =>
    /\ ~pv.st.raised
    /\ pv.st.css =>
         \A j \in 1..Len(ranges) :
           (/\ parse_unicode_range(ranges[j].expr).ok
            /\ create_subset(pv.data,
                             parse_unicode_range(ranges[j].expr).ranges).result
                 = "built")
           => \E n \in 1..Len(pv.st.stats.subsets) :
                pv.st.stats.subsets[n].id = ranges[j].id

\* C11: for a font file with its glyph inventory (the code points of its
\* character map, none when it has no character map) and a list of ranges,
\* create_subset returns False, raising nothing and writing nothing, exactly
\* when no code point of any range is in the inventory; a subset it builds
\* holds exactly the code points of the ranges that are in the inventory, and
\* with a non-empty intersection it builds unless the subsetting library raises.
C11_SkippedIffNoGlyphInRange ==
  (pv.active /\ TTFont_ok(pv.data)) =>
    LET inventory == IF pv.data.cmap THEN pv.data.glyphs ELSE {}
        parsed == [j \in 1..Len(ranges) |-> parse_unicode_range(ranges[j].expr)]
        inter  == [j \in 1..Len(ranges) |->
                     {c \in inventory :
                        \E n \in 1..Len(parsed[j].ranges) :
                           parsed[j].ranges[n][1] <= c /\ c <= parsed[j].ranges[n][2]}]
        made   == [j \in 1..Len(ranges) |-> create_subset(pv.data, parsed[j].ranges)]
    IN  \A j \in 1..Len(ranges) :
          parsed[j].ok =>
            /\ made[j].result = "skip" <=> inter[j] = {}
            /\ made[j].result = "built" => made[j].file.glyphs = inter[j]
            /\ (inter[j] # {} /\ inter[j] \cap pv.data.bad = {})
                 => made[j].result = "built"
            /\ j < pv.st.k =>
                 ((\E n \in 1..Len(pv.st.stats.subsets) :
                      pv.st.stats.subsets[n].id = ranges[j].id)
                  <=> made[j].result = "built")

\* A call on a font with a character map that went through the catalog: a
\* range with glyphs of the font was built, a range with none was skipped.
C11_Witness ==
  /\ pv.active
  /\ TTFont_ok(pv.data)
  /\ pv.data.cmap
  /\ pv.data.bad = {}
  /\ pv.st.css
  /\ pv.st.stats.created_subsets > 0
  /\ pv.st.stats.skipped_ranges > 0

\* C12: within one variant the ranges are processed in the order of the
\* catalog, and the @font-face rules of both stylesheets are, in that same
\* order, the catalog entries that were built: rule n belongs to the n-th built
\* entry of the catalog, whatever the sizes of the subsets.
C12_RuleOrderIsCatalogOrder ==
  pv.active =>
    LET st       == pv.st
        made     == [j \in 1..Len(ranges) |->
                       IF parse_unicode_range(ranges[j].expr).ok
                       THEN create_subset(
                              pv.data,
                              parse_unicode_range(ranges[j].expr).ranges).result
                       ELSE "unparsed"]
        built    == {j \in 1..Len(ranges) : j < st.k /\ made[j] = "built"}
        nth(n)   == CHOOSE j \in built : Cardinality({m \in built : m <= j}) = n
        sheets   == {Len(st.writes) - 1, Len(st.writes)}
    IN  /\ Len(st.stats.subsets) = Cardinality(built)
        /\ \A n \in 1..Len(st.stats.subsets) :
             st.stats.subsets[n].id = ranges[nth(n)].id
        /\ st.css =>
             \A sheet \in sheets :
               /\ st.writes[sheet].data.kind = "css"
               /\ Len(st.writes[sheet].data.entries) = Cardinality(built)
               /\ \A n \in 1..Cardinality(built) :
                    /\ st.writes[sheet].data.entries[n].src =
                         output_filename(pv.font_name, pv.variant_config.variant,
                                         ranges[nth(n)].id)
                    /\ st.writes[sheet].data.entries[n].unicode_range =
                         ranges[nth(n)].expr

\* Stylesheets written with two rules for subsets of different sizes, a range
\* of the catalog between them having given no subset.
C12_Witness ==
  /\ pv.active
  /\ pv.st.css
  /\ Len(pv.st.stats.subsets) = 2
  /\ pv.st.stats.subsets[1].size # pv.st.stats.subsets[2].size
  /\ pv.st.stats.subsets[1].id = ranges[1].id
  /\ pv.st.stats.subsets[2].id = ranges[3].id
  /\ Len(pv.st.writes[Len(pv.st.writes)].data.entries) = 2

\* C13: the CSS written for a variant holds exactly one @font-face rule for
\* every range that was built and none for a range that was skipped or whose
\* build failed; the rule carries the file name of the range's subset, which
\* was written, and as unicode-range the text of the catalog's expression.
C13_OneRulePerBuiltRange ==
  (pv.active /\ pv.st.css) =>
    LET st     == pv.st
        made   == [j \in 1..Len(ranges) |->
                     IF parse_unicode_range(ranges[j].expr).ok
                     THEN create_subset(
                            pv.data,
                            parse_unicode_range(ranges[j].expr).ranges).result
                     ELSE "unparsed"]
        fname  == [j \in 1..Len(ranges) |->
                     output_filename(pv.font_name, pv.variant_config.variant,
                                     ranges[j].id)]
    IN  \A sheet \in {Len(st.writes) - 1, Len(st.writes)} :
          LET rules == st.writes[sheet].data.entries
          IN  /\ Len(rules) = Cardinality({j \in 1..Len(ranges) : made[j] = "built"})
              /\ \A j \in 1..Len(ranges) :
                   LET mine == {n \in 1..Len(rules) : rules[n].src = fname[j]}
                   IN  IF made[j] = "built"
                       THEN /\ Cardinality(mine) = 1
                            /\ \A n \in mine : rules[n].unicode_range = ranges[j].expr
                            /\ \E w \in 1..Len(st.writes) :
                                 /\ st.writes[w].path =
                                      output_path(pv.font_name, fname[j])
                                 /\ st.writes[w].data.kind = "woff2"
                       ELSE mine = {}

\* A font with glyphs of the first range only: the first range is built, the
\* others are skipped, and each stylesheet holds the one rule of the first
\* range with the catalog's expression.
C13_Witness ==
  /\ pv.active
  /\ pv.st.css
  /\ pv.st.stats.created_subsets = 1
  /\ pv.st.stats.skipped_ranges = Len(ranges) - 1
  /\ Len(pv.st.writes[Len(pv.st.writes)].data.entries) = 1
  /\ pv.st.writes[Len(pv.st.writes)].data.entries[1].unicode_range = ranges[1].expr
  /\ pv.st.writes[Len(pv.st.writes) - 1].data.entries[1].unicode_range
       = ranges[1].expr

\* C14: the pretty and the minified stylesheet generate_css returns for a
\* list of built subsets have as many rules as the list has subsets, and rule
\* n of the one and rule n of the other carry the same family, weight, file
\* name and unicode-range: those of subset n.
C14_PrettyAndMinifiedAgree ==
  (pv.active /\ pv.st.css) =>
    LET pretty   == pv.st.writes[Len(pv.st.writes) - 1].data.entries
        minified == pv.st.writes[Len(pv.st.writes)].data.entries
        subsets  == pv.st.stats.subsets
    IN  /\ Len(pretty) = Len(subsets)
        /\ Len(minified) = Len(subsets)
        /\ \A n \in 1..Len(subsets) :
             /\ pretty[n].whitespace
             /\ ~minified[n].whitespace
             /\ pretty[n].font_family = minified[n].font_family
             /\ pretty[n].font_weight = minified[n].font_weight
             /\ pretty[n].src = minified[n].src
             /\ pretty[n].unicode_range = minified[n].unicode_range
             /\ minified[n].font_family = pv.font_name
             /\ minified[n].font_weight = pv.variant_config.weight
             /\ minified[n].src = subsets[n].filename
             /\ minified[n].unicode_range = subsets[n].unicode_range

\* The two stylesheets of a variant of weight 700 with two rules each.
C14_Witness ==
  /\ pv.active
  /\ pv.st.css
  /\ pv.variant_config.weight = 700
  /\ Len(pv.st.writes[Len(pv.st.writes) - 1].data.entries) = 2
  /\ Len(pv.st.writes[Len(pv.st.writes)].data.entries) = 2
  /\ pv.st.writes[Len(pv.st.writes) - 1].data.entries[2].whitespace
  /\ ~pv.st.writes[Len(pv.st.writes)].data.entries[2].whitespace

(***************************************************************************)
(* The helpers of utils.py called on their own, as test.py calls           *)
(* parse_unicode_range on its list of test cases                           *)
(***************************************************************************)

\* The most comma-separated tokens of an expression tried.
MaxTokens == 2

\* One token of a range expression and, when it reads as hexadecimal, the pair
\* it stands for: "single" is one value, "range" a pair start-end, "inverted"
\* a pair whose end is below its start, "prefixed" a value with a U+ of its
\* own, "nonhex" holds a character that is no hexadecimal digit, "malformed"
\* is empty or has more than one dash.
TokenCase(kind, text, pair) == [kind |-> kind, text |-> text, pair |-> pair]

TokenCases ==
  {TokenCase("single",    <<"1">>,                                   <<1, 1>>),
   TokenCase("single",    <<"f", "F">>,                              <<255, 255>>),
   TokenCase("single",    <<" ", "3">>,                              <<3, 3>>),
   TokenCase("range",     <<"0", "-", "A">>,                         <<0, 10>>),
   TokenCase("range",     <<"4", "E", "0", "0", "-", "9", "F", "F", "F">>,
                                                                     <<19968, 40959>>),
   TokenCase("inverted",  <<"5", "-", "4">>,                         <<5, 4>>),
   TokenCase("prefixed",  <<"U", "+", "2">>,                         <<2, 2>>),
   TokenCase("nonhex",    <<"G">>,                                   <<0, 0>>),
   TokenCase("nonhex",    <<"1", "-", "G">>,                         <<0, 0>>),
   TokenCase("malformed", <<>>,                                      <<0, 0>>),
   TokenCase("malformed", <<"1", "-", "2", "-", "3">>,               <<0, 0>>)}

\* ",".join of the tokens' texts.
RECURSIVE join_tokens(_)
join_tokens(tokens) ==
  IF Len(tokens) = 1 THEN tokens[1].text
  ELSE tokens[1].text \o <<",">> \o join_tokens(Tail(tokens))

\* The expressions tried: with or without the U+ marker, one to MaxTokens
\* tokens.
ParseCalls ==
  {[fn       |-> "parse_unicode_range",
    tokens   |-> tokens,
    expr     |-> prefix \o join_tokens(tokens),
    triple   |-> <<>>,
    returned |-> FALSE,
    result   |-> <<>>] :
     tokens \in UNION {[1..k -> TokenCases] : k \in 1..MaxTokens},
     prefix \in {<<"U", "+">>, <<>>}}

\* Font names, variants and range identifiers, with and without a dash.
NameParts ==
  {<<"A">>, <<"A", "-", "r">>, <<"r">>, <<"r", "-", "l">>, <<"l">>}

NameCalls ==
  {[fn       |-> "output_filename",
    tokens   |-> <<>>,
    expr     |-> <<>>,
    triple   |-> <<font_name, variant, range_id>>,
    returned |-> FALSE,
    result   |-> <<>>] :
     font_name \in NameParts, variant \in NameParts, range_id \in NameParts}

InitCalls ==
  /\ pc = "call"
  /\ scenario = CHOOSE sc \in Scenarios : sc.check[1] = FontA
  /\ ranges = CatalogGood
  /\ threads = 1
  /\ versions = <<>>
  /\ updates = <<>>
  /\ fetched = {}
  /\ task = <<>>
  /\ caches = <<>>
  /\ temp_fs = <<>>
  /\ out_fs = <<>>
  /\ writers = {}
  /\ touched = {}
  /\ completed = 0
  /\ failed = 0
  /\ collected = {}
  /\ seq_i = 1
  /\ failed_last = {}
  /\ ledger_writes = {}
  /\ pv = NoCall
  /\ call \in ParseCalls \cup NameCalls

\* result = parse_unicode_range(range_str)
CallParse ==
  /\ pc = "call"
  /\ call.fn = "parse_unicode_range"
  /\ ~call.returned
  /\ call' = [call EXCEPT !.returned = TRUE,
                          !.result = parse_unicode_range(call.expr)]
  /\ UNCHANGED <<pc, world, versions, updates, fetched, run_state, failed_last,
                 ledger_writes, pv>>

\* hash_str = hash_id(f"{font_name}-{variant}-{range_id}") and the file name
\* made with it.
CallName ==
  /\ pc = "call"
  /\ call.fn = "output_filename"
  /\ ~call.returned
  /\ call' = [call EXCEPT !.returned = TRUE,
                          !.result = output_filename(call.triple[1], call.triple[2],
                                                     call.triple[3])]
  /\ UNCHANGED <<pc, world, versions, updates, fetched, run_state, failed_last,
                 ledger_writes, pv>>

NextCalls ==
  \/ CallParse
  \/ CallName

SpecCalls == InitCalls /\ [][NextCalls]_vars

\* C15: parse_unicode_range either returns only pairs (start, end) with
\* start <= end or fails; an expression with a token that is not hexadecimal
\* or with an inverted pair is rejected and returns nothing.
C15_ParseRejectsBadRanges ==
  (call.fn = "parse_unicode_range" /\ call.returned) =>
    /\ call.result.ok =>
         \A n \in 1..Len(call.result.ranges) :
           call.result.ranges[n][1] <= call.result.ranges[n][2]
    /\ (\E i \in 1..Len(call.tokens) :
          call.tokens[i].kind \in {"nonhex", "inverted"})
         => ~call.result.ok

\* C16: for an expression made of U+ and k comma-separated tokens that read
\* as hexadecimal, parse_unicode_range returns exactly k pairs in the order of
\* the tokens, (a, b) for a token a-b and (a, a) for a token a; whatever the
\* tokens, a list it returns has one pair per token and is never empty.
C16_OnePairPerToken ==
  (call.fn = "parse_unicode_range" /\ call.returned) =>
    /\ (/\ Len(call.expr) >= 2
        /\ call.expr[1] = "U"
        /\ call.expr[2] = "+"
        /\ \A i \in 1..Len(call.tokens) :
             call.tokens[i].kind \in {"single", "range", "inverted"})
         => /\ call.result.ok
            /\ call.result.ranges =
                 [i \in 1..Len(call.tokens) |-> call.tokens[i].pair]
    /\ call.result.ok =>
         /\ Len(call.result.ranges) = Len(call.tokens)
         /\ Len(call.result.ranges) >= 1

\* U+ with a range and a single value: two pairs, in that order.
C16_Witness ==
  /\ call.fn = "parse_unicode_range"
  /\ call.returned
  /\ Len(call.tokens) = 2
  /\ call.tokens[1].kind = "range"
  /\ call.expr[1] = "U"
  /\ call.expr[2] = "+"
  /\ call.tokens[2].kind = "single"
  /\ call.result.ok
  /\ call.result.ranges = <<call.tokens[1].pair, call.tokens[2].pair>>
  /\ call.result.ranges[2][1] = call.result.ranges[2][2]

\* C18: any two distinct triples (fontName, variant, rangeId) are given
\* distinct identifiers: the text handed to the digest for the one differs
\* from the text handed to it for the other.
C18_DistinctTriplesDistinctIds ==
  (call.fn = "output_filename" /\ call.returned) =>
    \A font_name \in NameParts, variant \in NameParts, range_id \in NameParts :
      <<font_name, variant, range_id>> # call.triple
        => output_filename(font_name, variant, range_id).hash # call.result.hash

\* C17: the file name of a subset is a function of (fontName, variant,
\* rangeId) alone: the name this call gave to the subset of a range is the
\* name any other call for the same font name and variant gives to the subset
\* of the range with that identifier, whatever the font file, the weight and
\* the range expressions of that other call.
C17_NameDependsOnTripleOnly ==
  pv.active =>
    \A n \in 1..Len(pv.st.stats.subsets) :
      /\ pv.st.stats.subsets[n].filename =
           output_filename(pv.font_name, pv.variant_config.variant,
                           pv.st.stats.subsets[n].id)
      /\ \A data \in VariantFonts, catalog \in VariantCatalogs,
            weight \in {400, 700} :
           LET other == process_font_variant(
                          pv.font_name,
                          [pv.variant_config EXCEPT !.weight = weight],
                          data, catalog).stats.subsets
           IN  \A m \in 1..Len(other) :
                 other[m].id = pv.st.stats.subsets[n].id
                   => other[m].filename = pv.st.stats.subsets[n].filename

\* A subset was named, and a call on another font file with another
\* expression for the same range identifier builds a subset for it too.
C17_Witness ==
  /\ pv.active
  /\ Len(pv.st.stats.subsets) > 0
  /\ \E data \in VariantFonts, catalog \in VariantCatalogs :
       /\ data # pv.data
       /\ catalog # ranges
       /\ \E j \in 1..Len(catalog) :
            /\ catalog[j].id = pv.st.stats.subsets[1].id
            /\ catalog[j].expr # pv.st.stats.subsets[1].unicode_range
       /\ \E m \in 1..Len(process_font_variant(pv.font_name, pv.variant_config,
                                               data, catalog).stats.subsets) :
            process_font_variant(pv.font_name, pv.variant_config, data,
                                 catalog).stats.subsets[m].id
              = pv.st.stats.subsets[1].id

\* C19: within one update an asset is downloaded if and only if its URL is
\* not yet in the download cache.
C19_DownloadIffUrlNotCached ==
  \A i \in Tasks : \A k \in 1..Len(task[i].log) :
    task[i].log[k].url # "" =>
      (task[i].log[k].download # "none" <=> ~task[i].log[k].cache_hit)

\* C20: find_asset_by_pattern returns the first asset of the list whose name
\* the pattern matches and none exactly when no name matches; a variant for
\* which none is returned is skipped: nothing is downloaded, extracted, built
\* or written for it.
C20_FirstMatchingAsset ==
  \A i \in Tasks :
    task[i].font # 0 =>
      \A k \in 1..Len(task[i].log) :
        LET entry    == task[i].log[k]
            fc       == scenario.proc[task[i].font].files[k]
            assets   == updates[i].assets
            matching == {a \in 1..Len(assets) :
                           regex_search(fc.asset_pattern, assets[a].name, FALSE)}
        IN  (fc.asset_pattern # None /\ fc.asset_pattern # <<>>
             /\ re_compile_ok(fc.asset_pattern)) =>
              IF matching = {}
              THEN /\ find_asset_by_pattern(assets, fc.asset_pattern) = 0
                   /\ entry.outcome = "no_asset"
                   /\ entry.url = ""
                   /\ entry.download = "none"
                   /\ ~entry.cache_hit
                   /\ ~entry.existed
                   /\ entry.extraction = "none"
                   /\ ~entry.css
                   /\ \A w \in writers :
                        w[2] = i =>
                          /\ w[1].name.stem # updates[i].name \o DASH \o fc.variant
                          /\ w[1].name.stem #
                               updates[i].name \o DASH \o fc.variant \o DASH
              ELSE /\ find_asset_by_pattern(assets, fc.asset_pattern) \in matching
                   /\ \A a \in matching :
                        find_asset_by_pattern(assets, fc.asset_pattern) <= a
                   /\ entry.outcome # "no_asset"
                   /\ entry.url =
                        assets[find_asset_by_pattern(assets, fc.asset_pattern)]
                          .browser_download_url

\* An update one of whose variants had no matching asset and was skipped, and
\* another of whose variants has a pattern two assets match: the first of the
\* two was taken.
C20_Witness ==
  \E i \in Tasks :
    /\ task[i].font # 0
    /\ \E k, m \in 1..Len(task[i].log) :
         /\ task[i].log[k].outcome = "no_asset"
         /\ Cardinality({a \in 1..Len(updates[i].assets) :
                           regex_search(
                             scenario.proc[task[i].font].files[m].asset_pattern,
                             updates[i].assets[a].name, FALSE)}) = 2
         /\ task[i].log[m].url = updates[i].assets[1].browser_download_url

(***************************************************************************)
(* The extraction cache of one process_update invocation                   *)
(***************************************************************************)

C22_MarkerStrippedOnce ==
  (call.fn = "parse_unicode_range" /\ call.returned) =>
    ((\E i \in 2..Len(call.tokens) : call.tokens[i].kind = "prefixed")
       => ~call.result.ok)

(***************************************************************************)
(* Termination of the fleet run                                            *)
(***************************************************************************)

\* The invocation has a file of its font left to process: ProcessVariant(i)
\* can be taken.
VariantDue(i) ==
  /\ task[i].status = "running"
  /\ task[i].vi <= Len(scenario.proc[task[i].font].files)

\* The fleet under the scheduling the interpreter and the thread pool give.  A
\* step that can be taken is not put off for ever: a free worker takes the
\* next queued update, a process_update whose loop is over returns, main goes
\* on when a future is done or the sequential call has ended, and every
\* library call of a loop iteration returns or raises.  The last conjunct is
\* the weak fairness of ProcessVariant written out, with the condition under
\* which the action can be taken given as VariantDue.
SpecFair ==
  /\ Spec
  /\ WF_vars(\E i \in Tasks : Begin(i) \/ End(i) \/ Collect(i))
  /\ WF_vars(SeqNext \/ WriteLedger)
  /\ \/ []<>(\A i \in Tasks : ~VariantDue(i))
     \/ []<><<\E i \in Tasks : ProcessVariant(i)>>_vars

\* C23: every fleet run terminates (main reaches the end of the ledger
\* update), and process_update is invoked exactly once per entry of the
\* update list, in the pool and in the sequential loop: at the end of the run
\* there is one invocation per entry and each has ended, returned or raised;
\* an invocation that has begun is never begun again, and one that has ended
\* stays as it ended for the rest of the run.
C23_EachUpdateProcessedOnce ==
  /\ [](pc = "done" =>
          /\ DOMAIN task = 1..Len(updates)
          /\ \A i \in Tasks : Finished(i))
  /\ [][\A i \in Tasks :
          (pc \in {"pool", "seq"} /\ pc' \in {"pool", "seq", "done"}) =>
            /\ i \in DOMAIN task'
            /\ task[i].status # "pending" => task'[i].status # "pending"
            /\ Finished(i) => task'[i] = task[i]]_vars
  /\ (pc \in {"pool", "seq"}) ~> (pc = "done")

\* A run of the pool over three updates, with fewer workers than updates, is
\* over: every future was collected, one invocation raised and another one
\* went through its variants.
C23_Witness ==
  /\ pc = "done"
  /\ Len(updates) = 3
  /\ Len(updates) > font_workers(threads, Len(updates))
  /\ collected = 1..3
  /\ completed = 3
  /\ \E i \in Tasks : task[i].status = "raised"
  /\ \E i \in Tasks : task[i].status = "done" /\ Len(task[i].log) = 3

(***************************************************************************)
(* The ledger update and the workers                                       *)
(***************************************************************************)

\* C24: the version ledger is read and written only after every font worker
\* has finished: the ledger changes in no step but the ledger update of main,
\* and when main takes that step no process_update is in progress or still
\* waiting to start, whatever the interleaving of the workers was.
C24_LedgerAfterWorkers ==
  [][(versions' # versions \/ (pc' = "done" /\ pc # "done"))
       => /\ pc \in {"pool", "seq"}
          /\ pc' = "done"
          /\ Running = {}
          /\ DOMAIN task = 1..Len(updates)
          /\ \A i \in Tasks : Finished(i)]_vars

\* The ledger was written at the end of a run of the pool in which two
\* invocations of process_update went through files of their fonts.
C24_Witness ==
  /\ pc = "done"
  /\ use_pool(threads, Len(updates))
  /\ ledger_writes # {}
  /\ \A n \in ledger_writes : n \in DOMAIN versions
  /\ \E i, j \in Tasks :
       /\ i # j
       /\ <<i, i>> \in touched
       /\ <<j, j>> \in touched
       /\ Finished(i)
       /\ Finished(j)

(***************************************************************************)
(* The statistics of process_font_variant                                  *)
(***************************************************************************)

\* C25: the statistics of a process_font_variant call add up.  After every
\* loop iteration created_subsets + skipped_ranges is the number of catalog
\* entries gone through so far, the list of built subsets has
\* created_subsets elements and total_size is the sum of the sizes recorded in
\* that list; when the call returns, created_subsets + skipped_ranges is
\* total_ranges, the number of catalog entries.
C25_StatsAddUp ==
  pv.active =>
    LET stats == pv.st.stats
        sum[n \in 0..Len(stats.subsets)] ==
          IF n = 0 THEN 0 ELSE sum[n - 1] + stats.subsets[n].size
    IN  /\ stats.total_ranges = Len(ranges)
        /\ ~pv.st.raised =>
             stats.created_subsets + stats.skipped_ranges = pv.st.k - 1
        /\ Len(stats.subsets) = stats.created_subsets
        /\ stats.total_size = sum[Len(stats.subsets)]
        /\ pv.st.css =>
             stats.created_subsets + stats.skipped_ranges = stats.total_ranges

\* A call that returned after two subsets of different sizes were built and
\* the build of one range had raised.
C25_Witness ==
  /\ pv.active
  /\ pv.st.css
  /\ pv.st.stats.created_subsets = 2
  /\ pv.st.stats.skipped_ranges = 1
  /\ pv.st.stats.subsets[1].size # pv.st.stats.subsets[2].size
  /\ pv.st.stats.total_size
       = pv.st.stats.subsets[1].size + pv.st.stats.subsets[2].size
  /\ \E j \in 1..Len(ranges) :
       /\ parse_unicode_range(ranges[j].expr).ok
       /\ create_subset(pv.data, parse_unicode_range(ranges[j].expr).ranges).result
            = "raise"

(***************************************************************************)
(* What a failed download leaves behind                                    *)
(***************************************************************************)

\* C26: within one font update, a variant is handed a file (to extraction or
\* to process_font_variant), and its URL is in the download cache, only when
\* a download of that URL completed in this update: the file a failed
\* download left behind is never used.
C26_FailedDownloadNeverUsed ==
  \A i \in Tasks :
    LET log == task[i].log
        downloaded(u, k) ==
          \E j \in 1..k : log[j].url = u /\ log[j].download = "ok"
    IN  /\ \A k \in 1..Len(log) :
             (log[k].cache_hit \/ log[k].existed \/ log[k].download = "ok")
               => downloaded(log[k].url, k)
        /\ task[i].status = "running" =>
             \A u \in DOMAIN caches[task[i].cache].download_cache :
               downloaded(u, Len(log))

(***************************************************************************)
(* process_update run on its own, and the fleet compared with it           *)
(***************************************************************************)

\* What process_update has done so far when it is the only invocation: its
\* temporary directory, its caches, its log, the output files it wrote and
\* whether it raised.
update_start ==
  [fs |-> <<>>, download_cache |-> <<>>, extraction_cache |-> <<>>,
   log |-> <<>>, out |-> <<>>, raised |-> FALSE]

\* The state after one more iteration of the loop over the font's files.
after_variant(acc, it) ==
  [fs               |-> it.fs,
   download_cache   |-> it.download_cache,
   extraction_cache |-> it.extraction_cache,
   log              |-> Append(acc.log, LogEntry(it)),
   out              |-> write_all(acc.out, it.writes, 1),
   raised           |-> it.outcome = "raise"]

\* process_update(update_info) from its first file to its last, or to the
\* exception that leaves it, as invocation i and with the network answering
\* the k-th iteration with dls[k].
RECURSIVE process_update(_, _, _, _, _, _)
process_update(i, update_info, files, dls, catalog, acc) ==
  IF acc.raised \/ Len(acc.log) >= Len(files) THEN acc
  ELSE process_update(
         i, update_info, files, dls, catalog,
         after_variant(acc,
                       variant_iteration(update_info, files[Len(acc.log) + 1],
                                         Remote, mkdtemp(i), acc.fs,
                                         acc.download_cache, acc.extraction_cache,
                                         catalog, i, dls[Len(acc.log) + 1])))

\* C27: for an update list with pairwise distinct font names the result of a
\* fleet run does not depend on the worker bound or on the interleaving of
\* the workers.  When the run is over, every font's part of the result (what
\* each of its variants came to, the output files written for it with their
\* contents, the CSS rule sequences among them, and whether its update
\* raised) is what process_update gives when it runs on its own, from an
\* empty temporary directory and empty caches, with the same answers of the
\* network; and the output holds no other file.
C27_ResultIndependentOfSchedule ==
  (/\ pc = "done"
   /\ \A i, j \in Tasks : updates[i].name = updates[j].name => i = j)
    => LET dls(i) == [k \in 1..Len(scenario.proc[task[i].font].files) |->
                       IF k <= Len(task[i].log) /\ task[i].log[k].download # "none"
                       THEN task[i].log[k].download
                       ELSE "ok"]
           alone == [i \in {j \in Tasks : task[j].font # 0} |->
                       process_update(i, updates[i],
                                      scenario.proc[task[i].font].files,
                                      dls(i), ranges, update_start)]
       IN  /\ \A i \in DOMAIN alone :
                /\ task[i].log = alone[i].log
                /\ (task[i].status = "raised") = alone[i].raised
                /\ \A p \in DOMAIN alone[i].out :
                     p \in DOMAIN out_fs /\ out_fs[p] = alone[i].out[p]
           /\ \A i \in Tasks \ DOMAIN alone :
                task[i].log = <<>> /\ task[i].status = "done"
           /\ DOMAIN out_fs = UNION {DOMAIN alone[i].out : i \in DOMAIN alone}

\* A run of the pool over three fonts of different names is over: two of
\* them have output files, one update raised and one had a download fail.
C27_Witness ==
  /\ pc = "done"
  /\ use_pool(threads, Len(updates))
  /\ Len(updates) = 3
  /\ \A i, j \in Tasks : updates[i].name = updates[j].name => i = j
  /\ Cardinality({p.dir : p \in DOMAIN out_fs}) = 2
  /\ \E i \in Tasks : task[i].status = "raised"
  /\ \E i \in Tasks : \E k \in 1..Len(task[i].log) :
       task[i].log[k].outcome = "download_failed"

====
